---- MODULE Spec2Model ----
(***************************************************************************)
(* Model of new-cli (src/main.rs): a run validates its two positional      *)
(* arguments, makes sure the per-user template directory exists (seeding   *)
(* it with index.html on first use), resolves a template, writes the       *)
(* target file into the current directory and spawns the platform opener.  *)
(*                                                                         *)
(* Strings are sequences of one-character strings; a path is a sequence of *)
(* components, each a string in that sense.                                *)
(***************************************************************************)
EXTENDS Naturals, Sequences, FiniteSets

VARIABLES
    args,       \* args[p]: the parsed Cli of run p: [filename, extension]
    fault,      \* fault[p]: the one operation the environment fails in run p
    pc,         \* pc[p]: where run p is in main
    verdict,    \* verdict[p]: what validate_cli_inputs returned
    err,        \* err[p]: why run p ended, "none" while it has not failed
    exists_dir, \* the template directory exists on disk
    entries,    \* entries[n]: the direct entry named n of the template directory
    template,   \* template[p]: what find_template_file returned
    content,    \* content[p]: template_content of main
    target,     \* target[p]: the target file in run p's current directory
    did         \* did[p]: the effects run p has performed so far, in a set

vars == <<args, fault, pc, verdict, err, exists_dir, entries, template, content, target, did>>

Procs == {1, 2}

-----------------------------------------------------------------------------
(* Strings *)

\* Longest command-line argument the validation specification enumerates.
MaxLen == 3

Alphabet == {"a", "/", "\\", "."}

Strings(n) == UNION {[1..k -> Alphabet] : k \in 0..n}

\* str::contains: sub occurs in s as a contiguous substring.
Contains(s, sub) ==
    \E i \in 1..(Len(s) + 1) :
        /\ i + Len(sub) - 1 <= Len(s)
        /\ SubSeq(s, i, i + Len(sub) - 1) = sub

\* format!("{}.{}", filename, extension)
DotJoin(filename, extension) == filename \o <<".">> \o extension

-----------------------------------------------------------------------------
(* validate_cli_inputs *)

invalid_chars == << <<"/">>, <<"\\">>, <<".", ".">> >>

Ok == [ok |-> TRUE, field |-> "none", what |-> <<>>]

Err(field, what) == [ok |-> FALSE, field |-> field, what |-> what]

\* The for loop over invalid_chars: in each round the filename is tested
\* first, then the extension, and the first hit returns.
RECURSIVE scan_invalid_chars(_, _, _)
scan_invalid_chars(filename, extension, i) ==
    IF i > Len(invalid_chars) THEN Ok
    ELSE IF Contains(filename, invalid_chars[i]) THEN Err("filename", invalid_chars[i])
    ELSE IF Contains(extension, invalid_chars[i]) THEN Err("extension", invalid_chars[i])
    ELSE scan_invalid_chars(filename, extension, i + 1)

\* A validator that forgets the checks of the extension.
validate_cli_inputs_no_ext(filename, extension) ==
    LET r == scan_invalid_chars(filename, <<"a">>, 1)
    IN  IF ~r.ok THEN r
        ELSE IF filename = <<>> THEN Err("filename", <<>>)
        ELSE Ok

validate_cli_inputs(filename, extension) ==
    LET r == scan_invalid_chars(filename, extension, 1)
    IN  IF ~r.ok THEN r
        ELSE IF filename = <<>> THEN Err("filename", <<>>)
        ELSE IF extension = <<>> THEN Err("extension", <<>>)
        ELSE Ok

-----------------------------------------------------------------------------
(* Paths and the template directory *)

\* The text a literal stands for, one character per element.
DotNewCli == <<".", "n", "e", "w", "-", "c", "l", "i">>
Template == <<"t", "e", "m", "p", "l", "a", "t", "e">>
Index == <<"i", "n", "d", "e", "x">>
Html == <<"h", "t", "m", "l">>
IndexHtml == DotJoin(Index, Html)

\* Path::components of a relative name: the pieces between separators, the
\* empty ones and the "." ones dropped.
RECURSIVE Components(_)
Components(s) ==
    IF s = <<>> THEN <<>>
    ELSE LET cut == IF Contains(s, <<"/">>)
                    THEN CHOOSE i \in 1..Len(s) : s[i] = "/" /\ \A j \in 1..(i - 1) : s[j] # "/"
                    ELSE Len(s) + 1
             head == SubSeq(s, 1, cut - 1)
         IN  (IF head \in {<<>>, <<".">>} THEN <<>> ELSE <<head>>)
                 \o Components(SubSeq(s, cut + 1, Len(s)))

\* Path::join: a name that begins with a separator replaces the directory.
Join(dir, name) ==
    IF name # <<>> /\ name[1] = "/" THEN Components(name) ELSE dir \o Components(name)

\* Path::parent: the path without its last component, none for the empty path.
parent(path) ==
    IF path = <<>> THEN [some |-> FALSE, path |-> <<>>]
    ELSE [some |-> TRUE, path |-> SubSeq(path, 1, Len(path) - 1)]

\* dirs::home_dir() of the runs, and the directory each is started in.
HomeDir == << <<"h", "o", "m", "e">> >>
CurrentDir(p) == << <<"w", "o", "r", "k">>, <<"a">> \o [i \in 1..p |-> "a"] >>

\* home_dir().join(".new-cli").join("template")
TemplateDir == Join(Join(HomeDir, DotNewCli), Template)

\* Where the symbolic links of the model lead: a file below a subdirectory of
\* the template directory, and a file of a sibling directory whose name only
\* begins with "template".
SubDir == Join(TemplateDir, <<"s", "u", "b">>)
OutsideDir == Join(Join(HomeDir, DotNewCli), Template \o <<"2">>)

\* Path::starts_with: base is a prefix of path, component by component.
starts_with(path, base) ==
    /\ Len(base) <= Len(path)
    /\ SubSeq(path, 1, Len(base)) = base

\* Path::extension of a file name: the text after the last dot, none when the
\* name has no dot or its only dot is the first character.
LastDot(name) ==
    IF \E i \in 1..Len(name) : name[i] = "."
    THEN CHOOSE i \in 1..Len(name) :
            /\ name[i] = "."
            /\ \A j \in (i + 1)..Len(name) : name[j] # "."
    ELSE 0

NoExt == [some |-> FALSE, ext |-> <<>>]

extension_of(name) ==
    IF name = <<".", ".">> \/ LastDot(name) <= 1 THEN NoExt
    ELSE [some |-> TRUE, ext |-> SubSeq(name, LastDot(name) + 1, Len(name))]

\* The embedded default template, include_str!("../template/index.html").
DefaultTemplate == <<"<", "h", "t", "m", "l", ">">>

\* What a direct entry of the template directory can be.  A link_in entry is a
\* symbolic link to a regular file below SubDir, a link_out entry one to a
\* regular file of OutsideDir, a link_dangling entry one to nothing.
Kinds == {"absent", "file", "dir", "link_in", "link_out", "link_dangling"}

Base == <<"b", "a", "s", "e">>
TarGz == <<"t", "a", "r", ".", "g", "z">>

\* The names an entry of the template directory may have in the model.
EntryNames == {IndexHtml, DotJoin(Base, Html), DotJoin(Base, TarGz)}

Absent == [kind |-> "absent", data |-> <<>>]

\* The entry named n when it is of kind k before the run; data is the text a
\* read through the entry yields.
InitEntry(n, k) ==
    CASE k = "file" -> [kind |-> k, data |-> IF n = IndexHtml THEN DefaultTemplate ELSE <<"f", ":">> \o n]
      [] k = "link_in" -> [kind |-> k, data |-> <<"s", ":">> \o n]
      [] k = "link_out" -> [kind |-> k, data |-> <<"o", ":">> \o n]
      [] OTHER -> [kind |-> k, data |-> <<>>]

EntryAt(n) == IF n \in EntryNames THEN entries[n] ELSE Absent

\* Path::exists and Path::is_file follow symbolic links.
path_exists(n) == EntryAt(n).kind \in {"file", "dir", "link_in", "link_out"}
is_file(n) == EntryAt(n).kind \in {"file", "link_in", "link_out"}

NoPath == [ok |-> FALSE, path |-> <<>>]

\* fs::canonicalize of template_dir.join(n).
canonicalize(n) ==
    CASE EntryAt(n).kind \in {"file", "dir"} -> [ok |-> TRUE, path |-> Join(TemplateDir, n)]
      [] EntryAt(n).kind = "link_in" -> [ok |-> TRUE, path |-> Join(SubDir, n)]
      [] EntryAt(n).kind = "link_out" -> [ok |-> TRUE, path |-> Join(OutsideDir, n)]
      [] OTHER -> NoPath

\* fs::canonicalize(template_dir)
canonical_template_dir == IF exists_dir THEN [ok |-> TRUE, path |-> TemplateDir] ELSE NoPath

-----------------------------------------------------------------------------
(* find_template_file *)

None == [some |-> FALSE, name |-> <<>>]
Some(n) == [some |-> TRUE, name |-> n]

\* The test both branches make of a candidate: it canonicalizes, and the
\* canonical path starts with the canonical template directory.
is_contained(n) ==
    /\ canonicalize(n).ok
    /\ starts_with(canonicalize(n).path, canonical_template_dir.path)

\* The entries the directory scan may return: read_dir yields the entries in
\* no particular order, and the first that passes every test is returned.
scan_candidates(extension) ==
    {n \in EntryNames :
        /\ EntryAt(n).kind # "absent"
        /\ is_file(n)
        /\ extension_of(n).some
        /\ extension_of(n).ext = extension
        /\ is_contained(n)}

\* A resolver whose directory scan trusts an entry without canonicalizing it.
find_template_file_unchecked(filename, extension) ==
    LET specified_template_name == DotJoin(filename, extension)
        found == {n \in EntryNames :
                    is_file(n) /\ extension_of(n).some /\ extension_of(n).ext = extension}
    IN  IF ~canonical_template_dir.ok THEN {None}
        ELSE IF path_exists(specified_template_name) /\ is_contained(specified_template_name)
        THEN {Some(specified_template_name)}
        ELSE IF found # {} THEN {Some(n) : n \in found}
        ELSE {None}

\* A resolver that scans the directory before it looks at the exact name.
find_template_file_scan_first(filename, extension) ==
    LET specified_template_name == DotJoin(filename, extension)
    IN  IF ~canonical_template_dir.ok THEN {None}
        ELSE IF scan_candidates(extension) # {}
        THEN {Some(n) : n \in scan_candidates(extension)}
        ELSE IF path_exists(specified_template_name) /\ is_contained(specified_template_name)
        THEN {Some(specified_template_name)}
        ELSE {None}

\* The values find_template_file can return, the template directory being as
\* the state has it.
find_template_file(filename, extension) ==
    LET specified_template_name == DotJoin(filename, extension)
    IN  IF ~canonical_template_dir.ok THEN {None}
        ELSE IF path_exists(specified_template_name) /\ is_contained(specified_template_name)
        THEN {Some(specified_template_name)}
        ELSE IF scan_candidates(extension) # {}
        THEN {Some(n) : n \in scan_candidates(extension)}
        ELSE {None}

-----------------------------------------------------------------------------
(* main, one action for each step that touches the file system *)

\* The operation the environment refuses in a run, "none" when it refuses
\* nothing: a fatal failure ends the run, so no run meets a second one.
Faults == {"none", "home", "mkdir", "seed", "read", "cwd", "write", "spawn"}

NoFile == [exists |-> FALSE, data |-> <<>>]

Done(p) == pc[p] \in {"off", "done", "exit1", "fatal"}

\* A main that prints the rejection and goes on.
Validate_no_exit(p) ==
    /\ pc[p] = "start"
    /\ verdict' = [verdict EXCEPT ![p] = validate_cli_inputs(args[p].filename, args[p].extension)]
    /\ pc' = [pc EXCEPT ![p] = "ensure"]
    /\ err' = [err EXCEPT ![p] = IF verdict'[p].ok THEN "none" ELSE "validate"]
    /\ UNCHANGED <<args, fault, exists_dir, entries, template, content, target, did>>

\* lines 129-135: the arguments are validated, and a rejection ends the run
\* with process::exit(1).
Validate(p) ==
    /\ pc[p] = "start"
    /\ verdict' = [verdict EXCEPT ![p] = validate_cli_inputs(args[p].filename, args[p].extension)]
    /\ pc' = [pc EXCEPT ![p] = IF verdict'[p].ok THEN "ensure" ELSE "exit1"]
    /\ err' = [err EXCEPT ![p] = IF verdict'[p].ok THEN "none" ELSE "validate"]
    /\ UNCHANGED <<args, fault, exists_dir, entries, template, content, target, did>>

\* ensure_template_dir, lines 22-28: the home directory, then the test
\* whether the template directory exists.
ensure_template_dir(p) ==
    /\ pc[p] = "ensure"
    /\ IF fault[p] = "home"
       THEN /\ pc' = [pc EXCEPT ![p] = "fatal"]
            /\ err' = [err EXCEPT ![p] = "home"]
       ELSE /\ pc' = [pc EXCEPT ![p] = IF exists_dir THEN "find" ELSE "mkdir"]
            /\ UNCHANGED err
    /\ UNCHANGED <<args, fault, verdict, exists_dir, entries, template, content, target, did>>

\* ensure_template_dir, line 29: fs::create_dir_all, which succeeds when
\* another run has made the directory meanwhile.
create_dir_all(p) ==
    /\ pc[p] = "mkdir"
    /\ IF fault[p] = "mkdir"
       THEN /\ pc' = [pc EXCEPT ![p] = "fatal"]
            /\ err' = [err EXCEPT ![p] = "mkdir"]
            /\ UNCHANGED <<exists_dir, did>>
       ELSE /\ exists_dir' = TRUE
            /\ did' = [did EXCEPT ![p] = @ \cup {"mkdir"}]
            /\ pc' = [pc EXCEPT ![p] = "seed_open"]
            /\ UNCHANGED err
    /\ UNCHANGED <<args, fault, verdict, entries, template, content, target>>

\* ensure_template_dir, line 35, first half of fs::write: index.html is
\* created, or truncated when another run has made it meanwhile.
seed_open(p) ==
    /\ pc[p] = "seed_open"
    /\ IF fault[p] = "seed"
       THEN /\ pc' = [pc EXCEPT ![p] = "fatal"]
            /\ err' = [err EXCEPT ![p] = "seed"]
            /\ UNCHANGED <<entries, did>>
       ELSE /\ entries' = [entries EXCEPT ![IndexHtml] = [kind |-> "file", data |-> <<>>]]
            /\ did' = [did EXCEPT ![p] = @ \cup {"seed"}]
            /\ pc' = [pc EXCEPT ![p] = "seed_write"]
            /\ UNCHANGED err
    /\ UNCHANGED <<args, fault, verdict, exists_dir, template, content, target>>

\* ensure_template_dir, line 35, second half of fs::write: the default
\* template goes into the open file.
seed_write(p) ==
    /\ pc[p] = "seed_write"
    /\ entries' = [entries EXCEPT ![IndexHtml] = [kind |-> "file", data |-> DefaultTemplate]]
    /\ pc' = [pc EXCEPT ![p] = "find"]
    /\ UNCHANGED <<args, fault, verdict, err, exists_dir, template, content, target, did>>

\* main, lines 141 and 147-152: the template is resolved; with none, the
\* content is the empty string.
resolve_template(p) ==
    /\ pc[p] = "find"
    /\ \E r \in find_template_file(args[p].filename, args[p].extension) :
        /\ template' = [template EXCEPT ![p] = r]
        /\ pc' = [pc EXCEPT ![p] = IF r.some THEN "read" ELSE "cwd"]
    /\ content' = [content EXCEPT ![p] = <<>>]
    /\ did' = [did EXCEPT ![p] = @ \cup {"find"}]
    /\ UNCHANGED <<args, fault, verdict, err, exists_dir, entries, target>>

\* main, lines 142-146: fs::read_to_string of the resolved path, which fails
\* on anything that is not a file.
read_template(p) ==
    /\ pc[p] = "read"
    /\ IF fault[p] = "read" \/ ~is_file(template[p].name)
       THEN /\ pc' = [pc EXCEPT ![p] = "fatal"]
            /\ err' = [err EXCEPT ![p] = "read"]
            /\ UNCHANGED <<content, did>>
       ELSE /\ content' = [content EXCEPT ![p] = EntryAt(template[p].name).data]
            /\ did' = [did EXCEPT ![p] = @ \cup {"read"}]
            /\ pc' = [pc EXCEPT ![p] = "cwd"]
            /\ UNCHANGED err
    /\ UNCHANGED <<args, fault, verdict, exists_dir, entries, template, target>>

\* main, line 156
target_filename(p) == DotJoin(args[p].filename, args[p].extension)

\* main, line 162
absolute_target_path(p) == Join(CurrentDir(p), target_filename(p))

\* A main that writes the target relative to the current directory and only
\* then asks which directory that is.
resolve_current_dir_after_write(p) ==
    /\ pc[p] = "cwd"
    /\ IF fault[p] = "cwd"
       THEN /\ target' = [target EXCEPT ![p] = [exists |-> TRUE, data |-> content[p]]]
            /\ did' = [did EXCEPT ![p] = @ \cup {"write"}]
            /\ pc' = [pc EXCEPT ![p] = "fatal"]
            /\ err' = [err EXCEPT ![p] = "cwd"]
       ELSE /\ pc' = [pc EXCEPT ![p] = "write"]
            /\ UNCHANGED <<err, target, did>>
    /\ UNCHANGED <<args, fault, verdict, exists_dir, entries, template, content>>

\* main, lines 159-171: the current directory is obtained and canonicalized,
\* and the target must have it as its parent, or the run ends with
\* process::exit(1).
resolve_current_dir(p) ==
    /\ pc[p] = "cwd"
    /\ IF fault[p] = "cwd"
       THEN /\ pc' = [pc EXCEPT ![p] = "fatal"]
            /\ err' = [err EXCEPT ![p] = "cwd"]
       ELSE IF parent(absolute_target_path(p)) # [some |-> TRUE, path |-> CurrentDir(p)]
       THEN /\ pc' = [pc EXCEPT ![p] = "exit1"]
            /\ err' = [err EXCEPT ![p] = "parent"]
       ELSE /\ pc' = [pc EXCEPT ![p] = "write"]
            /\ UNCHANGED err
    /\ UNCHANGED <<args, fault, verdict, exists_dir, entries, template, content, target, did>>

\* main, lines 175-176: fs::write of the target file.
write_target(p) ==
    /\ pc[p] = "write"
    /\ IF fault[p] = "write"
       THEN /\ pc' = [pc EXCEPT ![p] = "fatal"]
            /\ err' = [err EXCEPT ![p] = "write"]
            /\ UNCHANGED <<target, did>>
       ELSE /\ target' = [target EXCEPT ![p] = [exists |-> TRUE, data |-> content[p]]]
            /\ did' = [did EXCEPT ![p] = @ \cup {"write"}]
            /\ pc' = [pc EXCEPT ![p] = "spawn"]
            /\ UNCHANGED err
    /\ UNCHANGED <<args, fault, verdict, exists_dir, entries, template, content>>

\* A main that propagates the spawn error with the ? operator.
spawn_opener_propagates(p) ==
    /\ pc[p] = "spawn"
    /\ did' = [did EXCEPT ![p] = @ \cup (IF fault[p] = "spawn" THEN {"spawn"} ELSE {"spawn", "opened"})]
    /\ err' = [err EXCEPT ![p] = IF fault[p] = "spawn" THEN "spawn" ELSE "none"]
    /\ pc' = [pc EXCEPT ![p] = IF fault[p] = "spawn" THEN "fatal" ELSE "done"]
    /\ UNCHANGED <<args, fault, verdict, exists_dir, entries, template, content, target>>

\* main, lines 181-191: the opener is spawned; a failure is printed and main
\* returns Ok(()) all the same.
spawn_opener(p) ==
    /\ pc[p] = "spawn"
    /\ did' = [did EXCEPT ![p] = @ \cup (IF fault[p] = "spawn" THEN {"spawn"} ELSE {"spawn", "opened"})]
    /\ err' = [err EXCEPT ![p] = IF fault[p] = "spawn" THEN "spawn" ELSE "none"]
    /\ pc' = [pc EXCEPT ![p] = "done"]
    /\ UNCHANGED <<args, fault, verdict, exists_dir, entries, template, content, target>>

\* The exit status of a run that has ended: 0 from Ok(()), 1 from
\* process::exit(1) and from an Err returned by main.
exit_status(p) == IF pc[p] = "done" THEN 0 ELSE 1

main(p) ==
    \/ Validate(p)
    \/ ensure_template_dir(p)
    \/ create_dir_all(p)
    \/ seed_open(p)
    \/ seed_write(p)
    \/ resolve_template(p)
    \/ read_template(p)
    \/ resolve_current_dir(p)
    \/ write_target(p)
    \/ spawn_opener(p)

-----------------------------------------------------------------------------
(* Specifications *)

\* The arguments the runs of Spec and SpecRace are given.
FileNames == {Index, Base, <<".", ".">>}
Extensions == {Html, TarGz, <<>>}
ValidFileNames == {Index, Base}
ValidExtensions == {Html, TarGz}

Cli(F, E) == [filename : F, extension : E]

\* What no run has touched yet.
Fresh ==
    /\ verdict = [p \in Procs |-> Ok]
    /\ err = [p \in Procs |-> "none"]
    /\ template = [p \in Procs |-> None]
    /\ content = [p \in Procs |-> <<>>]
    /\ target = [p \in Procs |-> NoFile]
    /\ did = [p \in Procs |-> {}]

\* One run, of any arguments, over any template directory, with any fault.
Init ==
    /\ \E a \in Cli(FileNames, Extensions) :
        args = [p \in Procs |-> IF p = 1 THEN a ELSE [filename |-> Index, extension |-> Html]]
    /\ \E f \in Faults :
        fault = [p \in Procs |-> IF p = 1 THEN f ELSE "none"]
    /\ pc = [p \in Procs |-> IF p = 1 THEN "start" ELSE "off"]
    /\ exists_dir \in BOOLEAN
    /\ \E k \in [EntryNames -> Kinds] :
        entries = [n \in EntryNames |-> InitEntry(n, k[n])]
    /\ exists_dir = FALSE => \A n \in EntryNames : entries[n] = Absent
    /\ Fresh

Next == \E p \in Procs : main(p)

Spec == Init /\ [][Next]_vars

\* Two runs started together, no template directory yet, nothing failing.
InitRace ==
    /\ args \in [Procs -> Cli(ValidFileNames, ValidExtensions)]
    /\ fault = [p \in Procs |-> "none"]
    /\ pc = [p \in Procs |-> "start"]
    /\ exists_dir = FALSE
    /\ entries = [n \in EntryNames |-> Absent]
    /\ Fresh

SpecRace == InitRace /\ [][Next]_vars

\* validate_cli_inputs alone, on every pair of strings up to MaxLen.
InitValidate ==
    /\ \E a \in Cli(Strings(MaxLen), Strings(MaxLen)) :
        args = [p \in Procs |-> IF p = 1 THEN a ELSE [filename |-> Index, extension |-> Html]]
    /\ fault = [p \in Procs |-> "none"]
    /\ pc = [p \in Procs |-> IF p = 1 THEN "start" ELSE "off"]
    /\ exists_dir = FALSE
    /\ entries = [n \in EntryNames |-> Absent]
    /\ Fresh

NextValidate == Validate(1)

SpecValidate == InitValidate /\ [][NextValidate]_vars

-----------------------------------------------------------------------------
(* Properties *)

\* The name the exact-match branch looks for in run p.
exact_name(p) == DotJoin(args[p].filename, args[p].extension)

\* Run p has called find_template_file.
Resolved(p) == "find" \in did[p]

\* The canonical path of entry n lies in the template directory.
InsideTemplateDir(n) ==
    /\ canonicalize(n).ok
    /\ starts_with(canonicalize(n).path, TemplateDir)

\* C1: find_template_file never returns an entry whose canonical path lies
\* outside the canonical template directory; a symbolic link that leads out of
\* the directory is returned neither as the exact match nor by the scan.
C1_Containment ==
    \A p \in Procs :
        (Resolved(p) /\ template[p].some) =>
            /\ InsideTemplateDir(template[p].name)
            /\ EntryAt(template[p].name).kind # "link_out"

\* C1's case: the exact name is a link that leads outside, which the exact
\* branch has refused and the scan, meeting it again as an entry of the
\* requested extension, has passed over for another entry.
C1_Witness ==
    /\ Resolved(1)
    /\ EntryAt(exact_name(1)).kind = "link_out"
    /\ extension_of(exact_name(1)).ext = args[1].extension
    /\ template[1].some
    /\ template[1].name # exact_name(1)

\* C2: when the exact name exists and its canonical path is inside the
\* template directory, find_template_file returns exactly that path, whatever
\* else has the extension, and a target that is written holds its content.
C2_ExactMatchWins ==
    \A p \in Procs :
        (Resolved(p) /\ path_exists(exact_name(p)) /\ InsideTemplateDir(exact_name(p))) =>
            /\ template[p] = Some(exact_name(p))
            /\ target[p].exists => target[p].data = EntryAt(exact_name(p)).data

\* C2's case: the exact match and another file of the same extension are both
\* there, and the target has been written from the exact match.
C2_Witness ==
    /\ target[1].exists
    /\ template[1] = Some(exact_name(1))
    /\ \E n \in EntryNames \ {exact_name(1)} :
        /\ EntryAt(n).kind = "file"
        /\ extension_of(n).ext = args[1].extension
        /\ EntryAt(n).data # target[1].data

\* Name n is <something>.<extension>, the way the exact name is built.
HasExtension(n, extension) ==
    /\ Len(n) > Len(extension) + 1
    /\ SubSeq(n, Len(n) - Len(extension), Len(n)) = <<".">> \o extension

\* C3: when the exact name is absent and some other regular file of the
\* requested extension is directly in the template directory,
\* find_template_file returns such a file, not None.
C3_FallbackFinds ==
    \A p \in Procs :
        ( /\ Resolved(p)
          /\ EntryAt(exact_name(p)).kind = "absent"
          /\ \E n \in EntryNames : EntryAt(n).kind = "file" /\ HasExtension(n, args[p].extension) )
        => /\ template[p].some
           /\ HasExtension(template[p].name, args[p].extension)

\* A string validate_cli_inputs has to reject.
Invalid(s) ==
    \/ s = <<>>
    \/ \E i \in 1..Len(s) : s[i] \in {"/", "\\"}
    \/ \E i \in 1..(Len(s) - 1) : s[i] = "." /\ s[i + 1] = "."

\* C4: validate_cli_inputs returns an error exactly when the filename or the
\* extension is empty or contains "/", "\" or "..".
C4_ValidateIff ==
    \A p \in Procs :
        pc[p] \notin {"start", "off"} =>
            (verdict[p].ok <=> (~Invalid(args[p].filename) /\ ~Invalid(args[p].extension)))

\* C4's case: a filename that is fine with an extension that is not, rejected.
C4_Witness ==
    /\ pc[1] = "exit1"
    /\ ~Invalid(args[1].filename)
    /\ Invalid(args[1].extension)
    /\ ~verdict[1].ok

\* C5: when the filename and the extension are both invalid, the error
\* returned is about the filename.
C5_FilenameFirst ==
    \A p \in Procs :
        (pc[p] = "exit1" /\ Invalid(args[p].filename) /\ Invalid(args[p].extension)) =>
            verdict[p].field = "filename"

\* What a run of arguments a resolves when it runs alone after the seeding:
\* index.html with the default template is all the directory holds.
ContentAlone(a) == IF a.extension = Html THEN DefaultTemplate ELSE <<>>

\* C6: two runs that start with no template directory race harmlessly: neither
\* fails, each resolves what it would resolve alone after the seeding, and
\* index.html never holds anything but the default template once written.
C6_BenignRace ==
    \A p \in Procs :
        /\ pc[p] \notin {"fatal", "exit1"}
        /\ pc[p] \in {"write", "spawn", "done"} => content[p] = ContentAlone(args[p])
        /\ target[p].exists => target[p].data = ContentAlone(args[p])

\* C7 as stated: a run that ends because the home directory or the current
\* directory cannot be resolved has written nothing: no template directory,
\* no default template, no target.
C7_NoWriteAtAll ==
    \A p \in Procs :
        (pc[p] = "fatal" /\ err[p] \in {"home", "cwd"}) =>
            /\ did[p] \cap {"mkdir", "seed", "write"} = {}
            /\ ~target[p].exists

\* C7 amended: such a run has written no target file and spawned no opener,
\* and when it is the home directory that fails it has written nothing at all.
C7_NoTargetWrite ==
    \A p \in Procs :
        (pc[p] = "fatal" /\ err[p] \in {"home", "cwd"}) =>
            /\ did[p] \cap {"write", "spawn"} = {}
            /\ ~target[p].exists
            /\ err[p] = "home" => did[p] = {}

\* C7's case: the current directory fails in a run that had to make and seed
\* the template directory first.
C7_Witness ==
    /\ pc[1] = "fatal"
    /\ err[1] = "cwd"
    /\ {"mkdir", "seed"} \subseteq did[1]
    /\ entries[IndexHtml].data = DefaultTemplate

\* C8: a run whose arguments are rejected exits with status 1 and does
\* nothing more: no template directory, no resolution, no read, no target, no
\* opener.
C8_RejectedDoesNothing ==
    \A p \in Procs :
        err[p] = "validate" =>
            /\ pc[p] = "exit1"
            /\ exit_status(p) = 1
            /\ did[p] = {}
            /\ ~target[p].exists
            /\ ~template[p].some
            /\ ~ENABLED main(p)

\* C8's case: rejected arguments where there is no template directory yet.
C8_Witness ==
    /\ err[1] = "validate"
    /\ ~verdict[1].ok
    /\ ~exists_dir

\* C9: the opener is spawned only once the target is written, and a spawn
\* that fails leaves the run ending with status 0 and the target as written.
C9_SpawnAfterWrite ==
    \A p \in Procs :
        /\ (pc[p] = "spawn" \/ "spawn" \in did[p]) =>
            /\ "write" \in did[p]
            /\ target[p] = [exists |-> TRUE, data |-> content[p]]
        /\ (fault[p] = "spawn" /\ "spawn" \in did[p]) =>
            /\ pc[p] = "done"
            /\ exit_status(p) = 0
            /\ "opened" \notin did[p]

\* C9's case: the spawn has failed in a run that wrote a template's content.
C9_Witness ==
    /\ err[1] = "spawn"
    /\ pc[1] = "done"
    /\ target[1].exists
    /\ target[1].data # <<>>

\* C10: every path find_template_file returns is a regular file, on the
\* exact-match branch as on the scan branch.
C10_ReturnsFiles ==
    \A p \in Procs :
        (Resolved(p) /\ template[p].some) => EntryAt(template[p].name).kind # "dir"

====
